---- MODULE Spec2Model ----
(***************************************************************************)
(* A model of sundryautomata: the cellular-automaton bot                   *)
(* (src/sundryautomata.py, main) and its predecessor script (src/gen.py).  *)
(*                                                                         *)
(* Python strings over {'0','1'} are sequences of the one-character        *)
(* strings "0" and "1".  A rule number may be as large as 2^32, which is   *)
(* beyond the integers of the model checker, so a rule is carried as the   *)
(* pair of its base-2^16 digits: [hi, lo] stands for hi * 2^16 + lo.       *)
(* Python's floats are IEEE 754 doubles; the arithmetic of lines 369-383   *)
(* is carried out on them bit for bit.                                     *)
(***************************************************************************)
EXTENDS Integers, Sequences, FiniteSets, TLC

VARIABLES
    pc,                  \* position of the run in main() / in gen.py
    config,              \* the content of the configuration file
    logger,              \* TRUE once LOGGER has been created
    tweeting,            \* line 317
    width, height,       \* cells per generation, generations to draw
    retry, remaining_tries,
    rule,                \* the rule selected last
    current_state_width, \* the neighbourhood width k
    rule_binary,         \* the padded binary expansion of rule
    transistions,        \* the transition table (spelling of the source)
    grid,                \* list of successive states
    y,                   \* the index of the for loop
    initialCondition,    \* gen.py only
    geometry,            \* angle, required image size, translation and
                         \* original_width of lines 374-381
    image_path,          \* the rule substituted into the written file's name
    tweeter,             \* the credentials the Tweeter was constructed with
    media,               \* TRUE once the image has been uploaded
    tweets,              \* the rules substituted into the posted texts
    critical,            \* TRUE once the handler logged at critical severity
    exception,           \* the exception raised, "" if none
    exit_status,         \* -1 while running, then the exit status
    selections,          \* number of rules selected so far (observer)
    abandoned            \* number of attempts abandoned so far (observer)

vars == <<pc, geometry, config, logger, tweeting, width, height, retry, remaining_tries,
          rule, current_state_width, rule_binary, transistions, grid, y,
          initialCondition, image_path, tweeter, media, tweets, critical,
          exception, exit_status, selections, abandoned>>

----------------------------------------------------------------------------
(* Bounds of the model *)

MinWidth == 50
MaxWidth == 51
MaxHeight == 2

----------------------------------------------------------------------------
(* Values *)

None == "<None>"
Missing == "<missing>"
NoRule == [hi |-> -1, lo |-> -1]

Base == 2^16

RuleOf(hi, lo) == [hi |-> hi, lo |-> lo]

\* the rule n, for n below 2^31
Small(n) == RuleOf(n \div Base, n % Base)

Min(a, b) == IF a < b THEN a ELSE b
Max(a, b) == IF a > b THEN a ELSE b

----------------------------------------------------------------------------
(* Python's string operations *)

\* s[a:b]
PySlice(s, a, b) ==
    LET n == Len(s)
        norm(i) == IF i < 0 THEN Max(i + n, 0) ELSE Min(i, n)
        lo == norm(a)
        hi == norm(b)
    IN  IF lo >= hi THEN <<>> ELSE SubSeq(s, lo + 1, hi)

\* reversed(s)
Reversed(s) == [i \in 1..Len(s) |-> s[Len(s) + 1 - i]]

\* '0' * n
Zeros(n) == [i \in 1..n |-> "0"]

\* s.zfill(n)
Zfill(s, n) == IF Len(s) >= n THEN s ELSE Zeros(n - Len(s)) \o s

Digit(b) == IF b = 0 THEN "0" ELSE "1"

\* bin(n)[2:] for a non-negative integer n
RECURSIVE Bin(_)
Bin(n) == IF n < 2 THEN <<Digit(n)>> ELSE Bin(n \div 2) \o <<Digit(n % 2)>>

\* format(rule, 'b')
FormatB(r) ==
    IF r.hi = 0 THEN Bin(r.lo) ELSE Bin(r.hi) \o Zfill(Bin(r.lo), 16)

----------------------------------------------------------------------------
(* The rule engine *)

\* r < 2^e, for a rule r of at most 2^32
RuleBelow(r, e) ==
    IF e <= 16 THEN r.hi = 0 /\ r.lo < 2^e
    ELSE IF e <= 32 THEN r.hi < 2^(e - 16)
    ELSE TRUE

\* math.log2(math.log2(rule+1)) raises ValueError when the inner logarithm
\* is 0.0, that is when rule + 1 = 1
LogLogDefined(r) == ~ (r.hi = 0 /\ r.lo = 0)

\* r <= 2^e
RuleAtMost(r, e) ==
    \/ RuleBelow(r, e)
    \/ e < 16 /\ r = RuleOf(0, 2^e)
    \/ e >= 16 /\ e <= 32 /\ r = RuleOf(2^(e - 16), 0)

\* the ceiling of log2(log2(rule)) instead: the least k with rule <= 2^(2^k)
CeilLogLogOfRule(r) ==
    CHOOSE k \in 0..6 : /\ RuleAtMost(r, 2^k)
                        /\ \A j \in 0..(k - 1) : ~ RuleAtMost(r, 2^j)

\* math.ceil(math.log2(math.log2(rule+1))): the least k with rule+1 <= 2^(2^k)
CeilLogLog(r) ==
    CHOOSE k \in 0..6 : /\ RuleBelow(r, 2^k)
                        /\ \A j \in 0..(k - 1) : ~ RuleBelow(r, 2^j)

\* max(3, math.ceil(math.log2(math.log2(rule+1))))
StateWidth(r) == Max(3, CeilLogLog(r))

\* format(rule, 'b').zfill(int(math.pow(2, current_state_width)))
RuleBinary(r, k) == Zfill(FormatB(r), 2^k)

\* {bin(i)[2:].zfill(k): c for i, c in enumerate(reversed(rule_binary))}
Key(i, k) == Zfill(Bin(i), k)

\* the table built without reversed(): entry i takes the character at
\* position i of the padded string
TransitionsUnreversed(rb, k) ==
    [key \in {Key(i, k) : i \in 0..(Len(rb) - 1)} |->
        rb[(CHOOSE i \in 0..(Len(rb) - 1) : Key(i, k) = key) + 1]]

Transitions(rb, k) ==
    LET rev == Reversed(rb)
        keys == {Key(i, k) : i \in 0..(Len(rb) - 1)}
        \* a later entry of the comprehension replaces an earlier one
        last(key) == CHOOSE i \in 0..(Len(rb) - 1) :
                        /\ Key(i, k) = key
                        /\ \A j \in 0..(Len(rb) - 1) : Key(j, k) = key => j <= i
    IN  [key \in keys |-> rev[last(key) + 1]]

\* the generation padded with dead cells instead of its own ends
PaddedWithZeros(cs, k, w) ==
    Zeros(k \div 2) \o cs \o Zeros(k - (k \div 2) - 1)

\* current_state[-floor(k/2):width] + current_state + current_state[0:k-floor(k/2)-1]
Padded(cs, k, w) ==
    PySlice(cs, -(k \div 2), w) \o cs \o PySlice(cs, 0, k - (k \div 2) - 1)

\* current_state_padded[x:x+k]
Pattern(cs, x, k, w) == PySlice(Padded(cs, k, w), x, x + k)

\* every lookup transistions[pattern] of one sweep finds its key
LookupsDefined(trans, cs, k, w) ==
    \A x \in 0..(w - 1) : Pattern(cs, x, k, w) \in DOMAIN trans

\* the inner loop: next_state += transistions[pattern] for x in range(0, width)
NextState(trans, cs, k, w) ==
    [i \in 1..w |-> trans[Pattern(cs, i - 1, k, w)]]

\* next_state == current_state or next_state[1:] == current_state[:-1]
\*                             or next_state[:-1] == current_state[1:]
Boring(next, cur) ==
    \/ next = cur
    \/ PySlice(next, 1, Len(next)) = PySlice(cur, 0, -1)
    \/ PySlice(next, 0, -1) = PySlice(cur, 1, Len(cur))

----------------------------------------------------------------------------
(* The inputs the model draws from *)

\* random.randint(0, 255) and random.randint(256, 4294967296): the rules the
\* model tries, the ends of both ranges and of each neighbourhood width
\* among them
Rules ==
    {Small(0), Small(1), Small(30), Small(90), Small(170),
     Small(255), Small(256), Small(65535), Small(65536),
     RuleOf(Base - 1, Base - 1), RuleOf(Base, 0)}

\* random.randint(50, 350): the widths the model tries
Widths == MinWidth..MaxWidth

\* random.randint(50, 350), every width
GeometryWidths == 50..350

\* angle = 0, or random.randint(4, 35) and its negative
Angles == {d \in -35..35 : d = 0 \/ d >= 4 \/ d <= -4}

\* the longest pattern that the initial states of the model repeat
SeedLength == 4

Seeds == UNION {[1..n -> {"0", "1"}] : n \in 1..SeedLength}

\* the state of w cells that repeats seed
Tile(seed, w) == [i \in 1..w |-> seed[((i - 1) % Len(seed)) + 1]]

\* the state of w cells whose only living cell is cell x (x counts from 0)
OneCell(w, x) == [i \in 1..w |-> IF i = x + 1 THEN "1" ELSE "0"]

\* [str(random.randint(0,1)) for b in range(0, width)]: of the 2^width
\* states the model tries those that repeat a pattern of at most SeedLength
\* cells and the one whose only living cell is the middle one
States(w) == {Tile(seed, w) : seed \in Seeds} \cup {OneCell(w, w \div 2)}

\* a credential of config.ini: absent, None, the empty string, or set
CredValues == {Missing, None, "", "key"}

\* image_width of the runs that explore the automaton; with image_height =
\* MaxHeight they have MaxHeight generations
EngineImageWidth == 64

\* every configuration of the credentials, for an image of one generation
Configs ==
    [general : BOOLEAN,
     consumer_key : CredValues, consumer_secret : CredValues,
     access_token : CredValues, access_token_secret : CredValues,
     image_width : {EngineImageWidth}, image_height : {1}]

\* the configuration whose four credentials are all v, for an image of
\* image_width x image_height pixels
Uniform(v, image_width, image_height) ==
    [general |-> TRUE, consumer_key |-> v, consumer_secret |-> v,
     access_token |-> v, access_token_secret |-> v,
     image_width |-> image_width, image_height |-> image_height]

\* the configuration of the runs that explore the automaton: posting enabled
EngineConfigs == {Uniform("key", EngineImageWidth, MaxHeight)}

\* the image sizes of the runs that explore the geometry: square, wide, tall
ImageSizes == {<<900, 900>>, <<1200, 800>>, <<600, 1000>>}

GeometryConfigs == {Uniform(None, sz[1], sz[2]) : sz \in ImageSizes}

\* the angle of the runs that explore the automaton
EngineAngles == {0}

\* the automaton of the runs that explore every configuration
ConfigRules == {Small(0), Small(90), Small(204)}
ConfigWidths == {MinWidth}

Credentials(c) ==
    <<c.consumer_key, c.consumer_secret, c.access_token, c.access_token_secret>>

\* offset = 0; generation_offset = max(0, int(offset))
offset == 0
generation_offset == Max(0, offset)

\* display_offset = offset - generation_offset
display_offset == offset - generation_offset

(* Python's float: an IEEE 754 double.  A natural number beyond the model   *)
(* checker's integers is the sequence of its base-2^13 digits, the least    *)
(* significant first and the most significant not 0; a float is             *)
(* (-1)^neg * m * 2^e with m such a number, odd and below 2^53, or 0.       *)

LimbBits == 13
Limb == 2^LimbBits
Precision == 53

RECURSIVE Trim(_)
Trim(a) ==
    IF a = <<>> \/ a[Len(a)] /= 0 THEN a
    ELSE Trim(SubSeq(a, 1, Len(a) - 1))

RECURSIVE NatOf(_)
NatOf(n) == IF n = 0 THEN <<>> ELSE <<n % Limb>> \o NatOf(n \div Limb)

RECURSIVE IntOf(_)
IntOf(a) == IF a = <<>> THEN 0 ELSE a[1] + Limb * IntOf(Tail(a))

LimbAt(a, i) == IF i <= Len(a) THEN a[i] ELSE 0

RECURSIVE AddFrom(_, _, _, _)
AddFrom(a, b, i, carry) ==
    IF i > Len(a) /\ i > Len(b) THEN NatOf(carry)
    ELSE LET s == LimbAt(a, i) + LimbAt(b, i) + carry
         IN  <<s % Limb>> \o AddFrom(a, b, i + 1, s \div Limb)

AddNat(a, b) == AddFrom(a, b, 1, 0)

RECURSIVE SubFrom(_, _, _, _)
SubFrom(a, b, i, borrow) ==
    IF i > Len(a) THEN <<>>
    ELSE LET d == a[i] - LimbAt(b, i) - borrow
         IN  IF d < 0 THEN <<d + Limb>> \o SubFrom(a, b, i + 1, 1)
             ELSE <<d>> \o SubFrom(a, b, i + 1, 0)

\* a - b for a >= b
SubNat(a, b) == Trim(SubFrom(a, b, 1, 0))

RECURSIVE MulFrom(_, _, _, _)
MulFrom(a, n, i, carry) ==
    IF i > Len(a) THEN NatOf(carry)
    ELSE LET p == a[i] * n + carry
         IN  <<p % Limb>> \o MulFrom(a, n, i + 1, p \div Limb)

\* a * n for an integer n below 2^17
MulNat(a, n) == IF n = 0 THEN <<>> ELSE MulFrom(a, n, 1, 0)

RECURSIVE CmpFrom(_, _, _)
CmpFrom(a, b, i) ==
    IF i = 0 THEN 0
    ELSE IF a[i] < b[i] THEN -1
    ELSE IF a[i] > b[i] THEN 1
    ELSE CmpFrom(a, b, i - 1)

\* -1, 0 or 1 as a < b, a = b or a > b
CmpNat(a, b) ==
    IF Len(a) < Len(b) THEN -1
    ELSE IF Len(a) > Len(b) THEN 1
    ELSE CmpFrom(a, b, Len(a))

RECURSIVE DivFrom(_, _, _, _)
DivFrom(a, d, i, r) ==
    IF i = 0 THEN [q |-> <<>>, r |-> r]
    ELSE LET cur == r * Limb + a[i]
             rest == DivFrom(a, d, i - 1, cur % d)
         IN  [q |-> Append(rest.q, cur \div d), r |-> rest.r]

\* quotient and remainder of a by an integer d, 0 < d < 2^17
DivNat(a, d) ==
    LET qr == DivFrom(a, d, Len(a), 0) IN [q |-> Trim(qr.q), r |-> qr.r]

\* a * 2^k
ShiftLeft(a, k) ==
    IF a = <<>> THEN <<>>
    ELSE [i \in 1..(k \div LimbBits) |-> 0] \o MulNat(a, 2^(k % LimbBits))

\* a \div 2^k
ShiftRight(a, k) ==
    IF Len(a) <= k \div LimbBits THEN <<>>
    ELSE DivNat(SubSeq(a, (k \div LimbBits) + 1, Len(a)), 2^(k % LimbBits)).q

RECURSIVE BitsOf(_)
BitsOf(n) == IF n = 0 THEN 0 ELSE 1 + BitsOf(n \div 2)

\* the number of binary digits of a
BitLength(a) ==
    IF a = <<>> THEN 0 ELSE LimbBits * (Len(a) - 1) + BitsOf(a[Len(a)])

RECURSIVE ZerosOf(_)
ZerosOf(n) == IF n % 2 = 1 THEN 0 ELSE 1 + ZerosOf(n \div 2)

\* the number of trailing zero binary digits of a /= 0
RECURSIVE TrailingZeros(_)
TrailingZeros(a) ==
    IF a[1] = 0 THEN LimbBits + TrailingZeros(Tail(a)) ELSE ZerosOf(a[1])

IsOdd(a) == a /= <<>> /\ a[1] % 2 = 1

FloatZero == [neg |-> FALSE, m |-> <<>>, e |-> 0]

\* the float that is exactly (-1)^neg * n * 2^e, n of at most 53 bits
Exact(neg, n, e) ==
    IF n = <<>> THEN FloatZero
    ELSE LET tz == TrailingZeros(n)
         IN  [neg |-> neg, m |-> ShiftRight(n, tz), e |-> e + tz]

\* the float nearest to (-1)^neg * (n + f) * 2^e, ties to even, where
\* 0 < f < 1 if inexact and f = 0 otherwise; an inexact n has over 54 bits
RoundToFloat(neg, n, e, inexact) ==
    LET t == BitLength(n) - Precision
    IN  IF t <= 0 THEN Exact(neg, n, e)
        ELSE LET q == ShiftRight(n, t)
                 r == SubNat(n, ShiftLeft(q, t))
                 c == CmpNat(r, ShiftLeft(<<1>>, t - 1))
                 up == c > 0 \/ (c = 0 /\ (inexact \/ IsOdd(q)))
             IN  Exact(neg, IF up THEN AddNat(q, <<1>>) ELSE q, e + t)

\* float(n) for an integer n
Float(n) == IF n < 0 THEN Exact(TRUE, NatOf(0 - n), 0) ELSE Exact(FALSE, NatOf(n), 0)

\* x * n for a float x and an integer n, 0 <= n < 2^17
FloatTimes(x, n) == RoundToFloat(x.neg, MulNat(x.m, n), x.e, FALSE)

GuardBits == 6 * LimbBits

\* x / d for a float x and an integer d, 0 < d < 2^17
FloatOver(x, d) ==
    IF x.m = <<>> THEN FloatZero
    ELSE LET qr == DivNat(ShiftLeft(x.m, GuardBits), d)
         IN  RoundToFloat(x.neg, qr.q, x.e - GuardBits, qr.r /= 0)

\* x + z for floats x and z
FloatPlus(x, z) ==
    IF x.m = <<>> THEN z
    ELSE IF z.m = <<>> THEN x
    ELSE LET e == IF x.e < z.e THEN x.e ELSE z.e
             a == ShiftLeft(x.m, x.e - e)
             b == ShiftLeft(z.m, z.e - e)
             c == CmpNat(a, b)
         IN  IF x.neg = z.neg THEN RoundToFloat(x.neg, AddNat(a, b), e, FALSE)
             ELSE IF c = 0 THEN FloatZero
             ELSE IF c > 0 THEN RoundToFloat(x.neg, SubNat(a, b), e, FALSE)
             ELSE RoundToFloat(z.neg, SubNat(b, a), e, FALSE)

\* x - n for a float x and an integer n
FloatMinus(x, n) == FloatPlus(x, Float(0 - n))

\* math.ceil(x) for a float x below 2^31 in absolute value
Ceil(x) ==
    IF x.m = <<>> THEN 0
    ELSE IF x.e >= 0
         THEN (IF x.neg THEN -1 ELSE 1) * IntOf(ShiftLeft(x.m, x.e))
    ELSE LET q == IntOf(ShiftRight(x.m, 0 - x.e))
         IN  IF x.neg THEN 0 - q ELSE q + 1

\* math.radians(d), math.sin(math.radians(d)) and math.cos(math.radians(d))
\* for d = 0..35, entry d + 1 for d degrees
RadiansOf ==
    <<FloatZero,
      [neg |-> FALSE, m |-> <<7481, 4756, 4520, 958, 1>>, e |-> -58],
      [neg |-> FALSE, m |-> <<7481, 4756, 4520, 958, 1>>, e |-> -57],
      [neg |-> FALSE, m |-> <<5611, 3567, 7486, 6862>>, e |-> -56],
      [neg |-> FALSE, m |-> <<7481, 4756, 4520, 958, 1>>, e |-> -56],
      [neg |-> FALSE, m |-> <<1159, 5946, 1554, 3246, 1>>, e |-> -56],
      [neg |-> FALSE, m |-> <<5611, 3567, 7486, 6862>>, e |-> -55],
      [neg |-> FALSE, m |-> <<1225, 6177, 3001, 4003>>, e |-> -54],
      [neg |-> FALSE, m |-> <<7481, 4756, 4520, 958, 1>>, e |-> -55],
      [neg |-> FALSE, m |-> <<1927, 7591, 5726, 321>>, e |-> -50],
      [neg |-> FALSE, m |-> <<1159, 5946, 1554, 3246, 1>>, e |-> -55],
      [neg |-> FALSE, m |-> <<3095, 7366, 35, 6291>>, e |-> -54],
      [neg |-> FALSE, m |-> <<5611, 3567, 7486, 6862>>, e |-> -54],
      [neg |-> FALSE, m |-> <<8061, 7729, 5297, 6677, 1>>, e |-> -55],
      [neg |-> FALSE, m |-> <<1225, 6177, 3001, 4003>>, e |-> -53],
      [neg |-> FALSE, m |-> <<4965, 363, 5262, 386, 1>>, e |-> -54],
      [neg |-> FALSE, m |-> <<7481, 4756, 4520, 958, 1>>, e |-> -54],
      [neg |-> FALSE, m |-> <<1805, 958, 3779, 1530, 1>>, e |-> -54],
      [neg |-> FALSE, m |-> <<1927, 7591, 5726, 321>>, e |-> -49],
      [neg |-> FALSE, m |-> <<1709, 388, 4670, 2716>>, e |-> -52],
      [neg |-> FALSE, m |-> <<1159, 5946, 1554, 3246, 1>>, e |-> -54],
      [neg |-> FALSE, m |-> <<3675, 2147, 813, 3818, 1>>, e |-> -54],
      [neg |-> FALSE, m |-> <<3095, 7366, 35, 6291>>, e |-> -53],
      [neg |-> FALSE, m |-> <<257, 1371, 7857, 6576>>, e |-> -53],
      [neg |-> FALSE, m |-> <<5611, 3567, 7486, 6862>>, e |-> -53],
      [neg |-> FALSE, m |-> <<5545, 3336, 6039, 6105, 1>>, e |-> -54],
      [neg |-> FALSE, m |-> <<8061, 7729, 5297, 6677, 1>>, e |-> -54],
      [neg |-> FALSE, m |-> <<5781, 6389, 796, 965>>, e |-> -50],
      [neg |-> FALSE, m |-> <<1225, 6177, 3001, 4003>>, e |-> -52],
      [neg |-> FALSE, m |-> <<6047, 1589, 1408, 2073>>, e |-> -51],
      [neg |-> FALSE, m |-> <<4965, 363, 5262, 386, 1>>, e |-> -53],
      [neg |-> FALSE, m |-> <<2127, 2560, 4891, 672, 1>>, e |-> -53],
      [neg |-> FALSE, m |-> <<7481, 4756, 4520, 958, 1>>, e |-> -53],
      [neg |-> FALSE, m |-> <<4643, 6953, 4149, 1244, 1>>, e |-> -53],
      [neg |-> FALSE, m |-> <<1805, 958, 3779, 1530, 1>>, e |-> -53],
      [neg |-> FALSE, m |-> <<3579, 1577, 1704, 5004>>, e |-> -52]>>

SinOf ==
    <<FloatZero,
      [neg |-> FALSE, m |-> <<3727, 3623, 357, 4575>>, e |-> -57],
      [neg |-> FALSE, m |-> <<7207, 4030, 5682, 956, 1>>, e |-> -57],
      [neg |-> FALSE, m |-> <<1159, 959, 6377, 6859>>, e |-> -56],
      [neg |-> FALSE, m |-> <<2597, 3434, 7291, 1142>>, e |-> -53],
      [neg |-> FALSE, m |-> <<129, 778, 6871, 5711>>, e |-> -55],
      [neg |-> FALSE, m |-> <<5595, 5752, 1545, 3425>>, e |-> -54],
      [neg |-> FALSE, m |-> <<723, 635, 5395, 7781, 1>>, e |-> -56],
      [neg |-> FALSE, m |-> <<7705, 5228, 6949, 928, 1>>, e |-> -55],
      [neg |-> FALSE, m |-> <<4981, 7490, 729, 2060, 1>>, e |-> -55],
      [neg |-> FALSE, m |-> <<5001, 4187, 1695, 3188, 1>>, e |-> -55],
      [neg |-> FALSE, m |-> <<591, 2995, 7031, 4312, 1>>, e |-> -55],
      [neg |-> FALSE, m |-> <<3195, 4361, 6965, 6812>>, e |-> -54],
      [neg |-> FALSE, m |-> <<1653, 5742, 3213, 6550, 1>>, e |-> -55],
      [neg |-> FALSE, m |-> <<6429, 5925, 4860, 7662, 1>>, e |-> -55],
      [neg |-> FALSE, m |-> <<4201, 201, 503, 530>>, e |-> -50],
      [neg |-> FALSE, m |-> <<3625, 2452, 695, 840, 1>>, e |-> -54],
      [neg |-> FALSE, m |-> <<6841, 3971, 4542, 1197>>, e |-> -51],
      [neg |-> FALSE, m |-> <<2383, 6527, 7117, 1933, 1>>, e |-> -54],
      [neg |-> FALSE, m |-> <<4983, 1, 445, 2667>>, e |-> -52],
      [neg |-> FALSE, m |-> <<3061, 1104, 2589, 3015, 1>>, e |-> -54],
      [neg |-> FALSE, m |-> <<5327, 8093, 6145, 2935>>, e |-> -52],
      [neg |-> FALSE, m |-> <<5761, 5932, 891, 4083, 1>>, e |-> -54],
      [neg |-> FALSE, m |-> <<8107, 5319, 3912, 4611, 1>>, e |-> -54],
      [neg |-> FALSE, m |-> <<6865, 2096, 7752, 5135, 1>>, e |-> -54],
      [neg |-> FALSE, m |-> <<6227, 6588, 2909, 5656, 1>>, e |-> -54],
      [neg |-> FALSE, m |-> <<185, 6846, 4654, 1795>>, e |-> -51],
      [neg |-> FALSE, m |-> <<623, 6317, 453, 29>>, e |-> -45],
      [neg |-> FALSE, m |-> <<4217, 290, 5277, 7191, 1>>, e |-> -54],
      [neg |-> FALSE, m |-> <<237, 3965, 1979, 7694, 1>>, e |-> -54],
      [neg |-> FALSE, m |-> <<8191, 8191, 8191, 8191, 1>>, e |-> -54],
      [neg |-> FALSE, m |-> <<7955, 2030, 3144, 246, 1>>, e |-> -53],
      [neg |-> FALSE, m |-> <<3733, 6835, 807, 4341>>, e |-> -52],
      [neg |-> FALSE, m |-> <<5917, 7043, 2997, 731, 1>>, e |-> -53],
      [neg |-> FALSE, m |-> <<7443, 143, 6689, 969, 1>>, e |-> -53],
      [neg |-> FALSE, m |-> <<2351, 6268, 5607, 1174>>, e |-> -50]>>

CosOf ==
    <<[neg |-> FALSE, m |-> <<1>>, e |-> 0],
      [neg |-> FALSE, m |-> <<6085, 8150, 6162, 8190>>, e |-> -52],
      [neg |-> FALSE, m |-> <<1383, 1528, 158, 8182, 1>>, e |-> -53],
      [neg |-> FALSE, m |-> <<1565, 2199, 4475, 8169, 1>>, e |-> -53],
      [neg |-> FALSE, m |-> <<8187, 1475, 366, 8172>>, e |-> -52],
      [neg |-> FALSE, m |-> <<2769, 4192, 6774, 8160>>, e |-> -52],
      [neg |-> FALSE, m |-> <<5091, 5089, 1010, 8147>>, e |-> -52],
      [neg |-> FALSE, m |-> <<7819, 3345, 7177, 8069, 1>>, e |-> -53],
      [neg |-> FALSE, m |-> <<2621, 1218, 2261, 8112>>, e |-> -52],
      [neg |-> FALSE, m |-> <<6423, 2143, 4681, 4045>>, e |-> -51],
      [neg |-> FALSE, m |-> <<7191, 1032, 739, 7943, 1>>, e |-> -53],
      [neg |-> FALSE, m |-> <<7009, 1250, 4013, 8041>>, e |-> -52],
      [neg |-> FALSE, m |-> <<5121, 807, 1662, 125>>, e |-> -46],
      [neg |-> FALSE, m |-> <<1807, 2676, 648, 7772, 1>>, e |-> -53],
      [neg |-> FALSE, m |-> <<6693, 7117, 2663, 7705, 1>>, e |-> -53],
      [neg |-> FALSE, m |-> <<7957, 6725, 5969, 7633, 1>>, e |-> -53],
      [neg |-> FALSE, m |-> <<7415, 7733, 339, 123>>, e |-> -46],
      [neg |-> FALSE, m |-> <<6943, 5086, 795, 7476, 1>>, e |-> -53],
      [neg |-> FALSE, m |-> <<5375, 6690, 900, 7390, 1>>, e |-> -53],
      [neg |-> FALSE, m |-> <<5323, 8181, 3082, 7299, 1>>, e |-> -53],
      [neg |-> FALSE, m |-> <<2887, 1188, 8036, 3848>>, e |-> -51],
      [neg |-> FALSE, m |-> <<6149, 6141, 6403, 7103, 1>>, e |-> -53],
      [neg |-> FALSE, m |-> <<6507, 6551, 7147, 1898>>, e |-> -50],
      [neg |-> FALSE, m |-> <<1647, 355, 4518, 6889, 1>>, e |-> -53],
      [neg |-> FALSE, m |-> <<8085, 6139, 4331, 6775, 1>>, e |-> -53],
      [neg |-> FALSE, m |-> <<5991, 366, 7756, 6656, 1>>, e |-> -53],
      [neg |-> FALSE, m |-> <<7269, 3416, 7543, 7362>>, e |-> -52],
      [neg |-> FALSE, m |-> <<3181, 2537, 2055, 6406, 1>>, e |-> -53],
      [neg |-> FALSE, m |-> <<1249, 3949, 2266, 1808>>, e |-> -50],
      [neg |-> FALSE, m |-> <<7395, 8012, 7246, 7164>>, e |-> -52],
      [neg |-> FALSE, m |-> <<3243, 706, 7866, 5996, 1>>, e |-> -53],
      [neg |-> FALSE, m |-> <<5487, 6619, 7491, 7021>>, e |-> -52],
      [neg |-> FALSE, m |-> <<2373, 5741, 3440, 5702, 1>>, e |-> -53],
      [neg |-> FALSE, m |-> <<3063, 4444, 1594, 3435>>, e |-> -51],
      [neg |-> FALSE, m |-> <<7081, 6993, 6044, 3395>>, e |-> -51],
      [neg |-> FALSE, m |-> <<1863, 2220, 8086, 5228, 1>>, e |-> -53]>>

----------------------------------------------------------------------------
(* Options processing: lines 365-383 (gen.py lines 120-138) *)

Abs(a) == IF a < 0 THEN 0 - a ELSE a

\* math.radians(d) for an integer d in -35..35
Radians(d) == [RadiansOf[Abs(d) + 1] EXCEPT !.neg = (d < 0)]

\* abs(x) for a float x
FloatAbs(x) == [x EXCEPT !.neg = FALSE]

\* the degrees of a float that math.radians returned
Degrees(x) == CHOOSE d \in 0..35 : RadiansOf[d + 1] = FloatAbs(x)

\* math.sin(x) and math.cos(x) for such a float x >= 0
Sin(x) == SinOf[Degrees(x) + 1]
Cos(x) == CosOf[Degrees(x) + 1]

\* height = math.ceil((image_height / image_width) * width), one more with
\* a display offset
PreRotationHeight(w, image_width, image_height) ==
    Ceil(FloatTimes(FloatOver(Float(image_height), image_width), w))
        + (IF display_offset > 0 THEN 1 ELSE 0)

\* the required width with the sine and the cosine exchanged
RequiredImageWidthSwapped(angle, image_width, image_height) ==
    FloatPlus(FloatTimes(Cos(FloatAbs(angle)), image_height),
              FloatTimes(Sin(FloatAbs(angle)), image_width))

\* sin(abs(angle)) * image_height + cos(abs(angle)) * image_width
RequiredImageWidth(angle, image_width, image_height) ==
    FloatPlus(FloatTimes(Sin(FloatAbs(angle)), image_height),
              FloatTimes(Cos(FloatAbs(angle)), image_width))

\* sin(abs(angle)) * image_width + cos(abs(angle)) * image_height
RequiredImageHeight(angle, image_width, image_height) ==
    FloatPlus(FloatTimes(Sin(FloatAbs(angle)), image_width),
              FloatTimes(Cos(FloatAbs(angle)), image_height))

\* (required - target) / 2
Translation(required, target) == FloatOver(FloatMinus(required, target), 2)

\* math.ceil(cells * required / target)
Enlarged(cells, required, target) ==
    Ceil(FloatOver(FloatTimes(required, cells), target))

\* the geometry before the options are processed
NoGeometry ==
    [angle |-> FloatZero, original_width |-> 0,
     required_image_width |-> FloatZero, required_image_height |-> FloatZero,
     translation |-> <<FloatZero, FloatZero>>]

\* lines 365-383 for w cells drawn, an angle of d degrees and an image of
\* image_width x image_height pixels: the number of generations from the
\* image size, the angle in radians, the required image size of the
\* rotation, the translation, and the numbers of cells and of generations
\* enlarged to fill the rotated image
OptionsProcessing(w, d, image_width, image_height) ==
    LET h == PreRotationHeight(w, image_width, image_height)
        angle == Radians(d)
        required_image_width ==
            RequiredImageWidth(angle, image_width, image_height)
        required_image_height ==
            RequiredImageHeight(angle, image_width, image_height)
    IN  [geometry |->
             [angle |-> angle,
              original_width |-> w,
              required_image_width |-> required_image_width,
              required_image_height |-> required_image_height,
              translation |->
                  <<Translation(required_image_width, image_width),
                    Translation(required_image_height, image_height)>>],
         width |-> Enlarged(w, required_image_width, image_width),
         height |-> Enlarged(h, required_image_height, image_height)]

----------------------------------------------------------------------------
(* main() of sundryautomata.py *)

Start(configs) ==
    /\ pc = "start"
    /\ config \in configs
    /\ logger = FALSE
    /\ tweeting = FALSE
    /\ width = 0
    /\ height = 0
    /\ retry = TRUE
    /\ remaining_tries = 3
    /\ rule = NoRule
    /\ current_state_width = 0
    /\ rule_binary = <<>>
    /\ transistions = <<>>
    /\ grid = <<>>
    /\ y = 0
    /\ initialCondition = <<>>
    /\ geometry = NoGeometry
    /\ image_path = NoRule
    /\ tweeter = <<>>
    /\ media = FALSE
    /\ tweets = <<>>
    /\ critical = FALSE
    /\ exception = ""
    /\ exit_status = -1
    /\ selections = 0
    /\ abandoned = 0

\* lines 288-297: load the configuration, read verbosity and logfile, create
\* the logger; a missing GENERAL entry raises KeyError before LOGGER is set
LoadConfig ==
    /\ pc = "start"
    /\ IF config.general
       THEN /\ logger' = TRUE
            /\ pc' = "config"
            /\ UNCHANGED exception
       ELSE /\ logger' = logger
            /\ pc' = "error"
            /\ exception' = "KeyError"
    /\ UNCHANGED <<geometry, config, tweeting, width, height, retry, remaining_tries,
                   rule, current_state_width, rule_binary, transistions, grid,
                   y, initialCondition, image_path, tweeter, media, tweets,
                   critical, exit_status, selections, abandoned>>

\* lines 302-317: copy the configuration, the image size and the credentials
\* among it; a missing credential raises KeyError; tweeting = all(x is not None for x in [...])
ProcessConfiguration ==
    /\ pc = "config"
    /\ IF \E i \in 1..4 : Credentials(config)[i] = Missing
       THEN /\ pc' = "error"
            /\ exception' = "KeyError"
            /\ tweeting' = tweeting
       ELSE /\ pc' = "options"
            /\ UNCHANGED exception
            /\ tweeting' = (\A i \in 1..4 : Credentials(config)[i] /= None)
    /\ UNCHANGED <<geometry, config, logger, width, height, retry, remaining_tries,
                   rule, current_state_width, rule_binary, transistions, grid,
                   y, initialCondition, image_path, tweeter, media, tweets,
                   critical, exit_status, selections, abandoned>>

\* lines 331-442: width = random.randint(50, 350); the angle is 0 or plus or
\* minus random.randint(4, 35) degrees; the options are processed for the
\* configured image size; retry = True, remaining_tries = 3
ProcessOptions(widths, angles) ==
    /\ pc = "options"
    /\ \E w \in widths, d \in angles :
          \E processed \in {OptionsProcessing(w, d, config.image_width,
                                               config.image_height)} :
              /\ geometry' = processed.geometry
              /\ width' = processed.width
              /\ height' = processed.height
    /\ retry' = TRUE
    /\ remaining_tries' = 3
    /\ rule' = NoRule
    /\ grid' = <<>>
    /\ pc' = "while"
    /\ UNCHANGED <<config, logger, tweeting, current_state_width, rule_binary,
                   transistions, y, initialCondition, image_path, tweeter,
                   media, tweets, critical, exception, exit_status, selections,
                   abandoned>>

\* the loop test with the bound of line 485: while retry and
\* remaining_tries > 1
WhileTestOffByOne ==
    /\ pc = "while"
    /\ pc' = IF retry /\ remaining_tries > 1 THEN "select" ELSE "draw"
    /\ UNCHANGED <<geometry, config, logger, tweeting, width, height, retry,
                   remaining_tries, rule, current_state_width, rule_binary,
                   transistions, grid, y, initialCondition, image_path,
                   tweeter, media, tweets, critical, exception, exit_status,
                   selections, abandoned>>

\* line 443: while retry and remaining_tries > 0
WhileTest ==
    /\ pc = "while"
    /\ pc' = IF retry /\ remaining_tries > 0 THEN "select" ELSE "draw"
    /\ UNCHANGED <<geometry, config, logger, tweeting, width, height, retry,
                   remaining_tries, rule, current_state_width, rule_binary,
                   transistions, grid, y, initialCondition, image_path,
                   tweeter, media, tweets, critical, exception, exit_status,
                   selections, abandoned>>

\* lines 444-453: retry = False; select a small or a large rule
SelectRule(rules) ==
    /\ pc = "select"
    /\ retry' = FALSE
    /\ rule' \in rules
    /\ selections' = selections + 1
    /\ pc' = "derive"
    /\ UNCHANGED <<geometry, config, logger, tweeting, width, height, remaining_tries,
                   current_state_width, rule_binary, transistions, grid, y,
                   initialCondition, image_path, tweeter, media, tweets,
                   critical, exception, exit_status, abandoned>>

\* lines 455-463: neighbourhood width, padded binary rule, transition table
DeriveTransitions ==
    /\ pc = "derive"
    /\ IF LogLogDefined(rule)
       THEN /\ current_state_width' = StateWidth(rule)
            /\ rule_binary' = RuleBinary(rule, current_state_width')
            /\ transistions' = Transitions(rule_binary', current_state_width')
            /\ pc' = "initial"
            /\ UNCHANGED exception
       ELSE /\ pc' = "error"
            /\ exception' = "ValueError"
            /\ UNCHANGED <<current_state_width, rule_binary, transistions>>
    /\ UNCHANGED <<geometry, config, logger, tweeting, width, height, retry,
                   remaining_tries, rule, grid, y, initialCondition,
                   image_path, tweeter, media, tweets, critical, exit_status,
                   selections, abandoned>>

\* the initial state appended to the grid of the abandoned attempt
GenerateInitialStateAppended ==
    /\ pc = "initial"
    /\ \E initial_state \in States(width) : grid' = Append(grid, initial_state)
    /\ y' = 0
    /\ pc' = "for"
    /\ UNCHANGED <<geometry, config, logger, tweeting, width, height, retry,
                   remaining_tries, rule, current_state_width, rule_binary,
                   transistions, initialCondition, image_path, tweeter, media,
                   tweets, critical, exception, exit_status, selections,
                   abandoned>>

\* lines 465-469: the random initial state becomes the grid's only entry
GenerateInitialState ==
    /\ pc = "initial"
    /\ \E initial_state \in States(width) : grid' = <<initial_state>>
    /\ y' = 0
    /\ pc' = "for"
    /\ UNCHANGED <<geometry, config, logger, tweeting, width, height, retry,
                   remaining_tries, rule, current_state_width, rule_binary,
                   transistions, initialCondition, image_path, tweeter, media,
                   tweets, critical, exception, exit_status, selections,
                   abandoned>>

\* the for loop with the test of lines 484-489 made on its last iteration
\* only
SimulateFinalCheck ==
    /\ pc = "for"
    /\ IF y < height + generation_offset
       THEN LET current_state == grid[y + 1]
            IN  IF LookupsDefined(transistions, current_state,
                                  current_state_width, width)
                THEN LET next_state == NextState(transistions, current_state,
                                                 current_state_width, width)
                         boring == Boring(next_state, current_state)
                     IN  /\ grid' = Append(grid, next_state)
                         /\ UNCHANGED exception
                         /\ IF /\ boring
                               /\ remaining_tries > 1
                               /\ y + 1 = height + generation_offset
                            THEN /\ retry' = TRUE
                                 /\ remaining_tries' = remaining_tries - 1
                                 /\ abandoned' = abandoned + 1
                                 /\ y' = y
                                 /\ pc' = "while"
                            ELSE /\ y' = y + 1
                                 /\ pc' = "for"
                                 /\ UNCHANGED <<retry, remaining_tries,
                                                abandoned>>
                ELSE /\ pc' = "error"
                     /\ exception' = "KeyError"
                     /\ UNCHANGED <<grid, y, retry, remaining_tries, abandoned>>
       ELSE /\ pc' = "while"
            /\ UNCHANGED <<grid, y, retry, remaining_tries, abandoned,
                           exception>>
    /\ UNCHANGED <<geometry, config, logger, tweeting, width, height, rule,
                   current_state_width, rule_binary, transistions,
                   initialCondition, image_path, tweeter, media, tweets,
                   critical, exit_status, selections>>

\* lines 473-489: one iteration of the for loop, or its end
Simulate ==
    /\ pc = "for"
    /\ IF y < height + generation_offset
       THEN LET current_state == grid[y + 1]
            IN  IF LookupsDefined(transistions, current_state,
                                  current_state_width, width)
                THEN LET next_state == NextState(transistions, current_state,
                                                 current_state_width, width)
                         boring == Boring(next_state, current_state)
                     IN  /\ grid' = Append(grid, next_state)
                         /\ UNCHANGED exception
                         /\ IF boring /\ remaining_tries > 1
                            THEN /\ retry' = TRUE
                                 /\ remaining_tries' = remaining_tries - 1
                                 /\ abandoned' = abandoned + 1
                                 /\ y' = y
                                 /\ pc' = "while"
                            ELSE /\ y' = y + 1
                                 /\ pc' = "for"
                                 /\ UNCHANGED <<retry, remaining_tries,
                                                abandoned>>
                ELSE /\ pc' = "error"
                     /\ exception' = "KeyError"
                     /\ UNCHANGED <<grid, y, retry, remaining_tries, abandoned>>
       ELSE /\ pc' = "while"
            /\ UNCHANGED <<grid, y, retry, remaining_tries, abandoned,
                           exception>>
    /\ UNCHANGED <<geometry, config, logger, tweeting, width, height, rule,
                   current_state_width, rule_binary, transistions,
                   initialCondition, image_path, tweeter, media, tweets,
                   critical, exit_status, selections>>

\* lines 496-541: discard the unwanted generations, draw every row of the grid
\* at its entry of y_positions (height + 1 entries) and x_positions (width
\* entries), substitute the rule into the file name and write the image;
\* writing may fail
Draw ==
    /\ pc = "draw"
    /\ grid' = PySlice(grid, generation_offset, Len(grid))
    /\ IF /\ Len(grid') <= height + 1
          /\ \A i \in 1..Len(grid') : Len(grid'[i]) <= width
       THEN \E written \in BOOLEAN :
               IF written
               THEN /\ image_path' = rule
                    /\ pc' = "tweet"
                    /\ UNCHANGED exception
               ELSE /\ image_path' = image_path
                    /\ pc' = "error"
                    /\ exception' = "OSError"
       ELSE /\ image_path' = image_path
            /\ pc' = "error"
            /\ exception' = "IndexError"
    /\ UNCHANGED <<geometry, config, logger, tweeting, width, height, retry,
                   remaining_tries, rule, current_state_width, rule_binary,
                   transistions, y, initialCondition, tweeter, media, tweets,
                   critical, exit_status, selections, abandoned>>

\* lines 545-550 and 556-559: when tweeting, construct the Tweeter and upload
\* the image, which may fail; otherwise the run is done
Upload ==
    /\ pc = "tweet"
    /\ IF tweeting
       THEN /\ tweeter' = Credentials(config)
            /\ \E uploaded \in BOOLEAN :
                  /\ media' = uploaded
                  /\ pc' = IF uploaded THEN "send" ELSE "error"
                  /\ exception' = IF uploaded THEN exception ELSE "TweepError"
            /\ UNCHANGED exit_status
       ELSE /\ pc' = "done"
            /\ exit_status' = 0
            /\ UNCHANGED <<tweeter, media, exception>>
    /\ UNCHANGED <<geometry, config, logger, tweeting, width, height, retry,
                   remaining_tries, rule, current_state_width, rule_binary,
                   transistions, grid, y, initialCondition, image_path, tweets,
                   critical, selections, abandoned>>

\* the text posted a second time
SendTweetTwice ==
    /\ pc = "send"
    /\ \E sent \in BOOLEAN :
          IF sent
          THEN /\ tweets' = Append(Append(tweets, rule), rule)
               /\ pc' = "done"
               /\ exit_status' = 0
               /\ UNCHANGED exception
          ELSE /\ pc' = "error"
               /\ exception' = "TweepError"
               /\ UNCHANGED <<tweets, exit_status>>
    /\ UNCHANGED <<geometry, config, logger, tweeting, width, height, retry,
                   remaining_tries, rule, current_state_width, rule_binary,
                   transistions, grid, y, initialCondition, image_path,
                   tweeter, media, critical, selections, abandoned>>

\* lines 552-559: substitute the rule into the text and post it, which may fail
SendTweet ==
    /\ pc = "send"
    /\ \E sent \in BOOLEAN :
          IF sent
          THEN /\ tweets' = Append(tweets, rule)
               /\ pc' = "done"
               /\ exit_status' = 0
               /\ UNCHANGED exception
          ELSE /\ pc' = "error"
               /\ exception' = "TweepError"
               /\ UNCHANGED <<tweets, exit_status>>
    /\ UNCHANGED <<geometry, config, logger, tweeting, width, height, retry,
                   remaining_tries, rule, current_state_width, rule_binary,
                   transistions, grid, y, initialCondition, image_path,
                   tweeter, media, critical, selections, abandoned>>

\* lines 565-568 and 85-97: LOGGER.exception(e) logs the trace at critical
\* severity and exits with status 1; while LOGGER is still None the call
\* itself raises, and the interpreter exits with status 1
HandleException ==
    /\ pc = "error"
    /\ critical' = logger
    /\ exit_status' = 1
    /\ pc' = "exited"
    /\ UNCHANGED <<geometry, config, logger, tweeting, width, height, retry,
                   remaining_tries, rule, current_state_width, rule_binary,
                   transistions, grid, y, initialCondition, image_path,
                   tweeter, media, tweets, exception, selections, abandoned>>

Init == Start(EngineConfigs)

InitConfig == Start(Configs)

Next ==
    \/ LoadConfig
    \/ ProcessConfiguration
    \/ ProcessOptions(Widths, EngineAngles)
    \/ WhileTest
    \/ SelectRule(Rules)
    \/ DeriveTransitions
    \/ GenerateInitialState
    \/ Simulate
    \/ Draw
    \/ Upload
    \/ SendTweet
    \/ HandleException

GeometryInit == Start(GeometryConfigs)

GeometryNext ==
    \/ LoadConfig
    \/ ProcessConfiguration
    \/ ProcessOptions(GeometryWidths, Angles)

NextConfig ==
    \/ LoadConfig
    \/ ProcessConfiguration
    \/ ProcessOptions(ConfigWidths, EngineAngles)
    \/ WhileTest
    \/ SelectRule(ConfigRules)
    \/ DeriveTransitions
    \/ GenerateInitialState
    \/ Simulate
    \/ Draw
    \/ Upload
    \/ SendTweet
    \/ HandleException

----------------------------------------------------------------------------
(* gen.py, a script without functions: its statements from top to bottom *)

\* the values of initialCondition, as Python strings
Middle == <<"m", "i", "d", "d", "l", "e">>
Left == <<"l", "e", "f", "t">>
Right == <<"r", "i", "g", "h", "t">>
Random == <<"r", "a", "n", "d", "o", "m">>

\* initial states written out in the option itself
Custom == {<<"1">>, <<"1", "0", "1">>, <<"0", "1", "1", "0", "1", "1", "1">>}

\* random.randint(0,255) and random.randint(256,4294967296),
\* random.randint(120,240) and random.randint(-20,20): what the model tries
GenRules == {Small(0), Small(90), RuleOf(Base, 0)}
GenWidths == {120}
GenAngles == {0, -20}

\* imageWidth = 900, imageHeight = 900
GenImageSize == 900

\* the inputs on which the rule engine (lines 160-197) is explored by itself
EngineRules == {Small(30), Small(90), RuleOf(Base, 0)}
EngineWidths == {31}
EngineGenerations == 16

\* s with s[i] replaced by c (i counts from 0)
SetItem(s, i, c) == [j \in 1..Len(s) |-> IF j = i + 1 THEN c ELSE s[j]]

\* 'middle' rounding width/2 up instead of down
InitialStatesRoundedUp(cond, w) ==
    IF cond = Middle THEN {SetItem(Zeros(w), (w + 1) \div 2, "1")}
    ELSE IF cond = Left THEN {<<"1">> \o Zeros(w - 1)}
    ELSE IF cond = Right THEN {Zeros(w - 1) \o <<"1">>}
    ELSE IF cond = Random THEN States(w)
    ELSE {Reversed(Zfill(Reversed(PySlice(cond, 0, w)), w))}

\* lines 171-181: the initial states the option allows
InitialStates(cond, w) ==
    IF cond = Middle THEN {SetItem(Zeros(w), w \div 2, "1")}
    ELSE IF cond = Left THEN {<<"1">> \o Zeros(w - 1)}
    ELSE IF cond = Right THEN {Zeros(w - 1) \o <<"1">>}
    ELSE IF cond = Random THEN States(w)
    ELSE {Reversed(Zfill(Reversed(PySlice(cond, 0, w)), w))}

\* the variables that the options and the engine have not assigned yet
ScriptStart ==
    /\ config = Uniform(None, GenImageSize, GenImageSize)
    /\ logger = FALSE
    /\ tweeting = FALSE
    /\ retry = FALSE
    /\ remaining_tries = 0
    /\ current_state_width = 0
    /\ rule_binary = <<>>
    /\ transistions = <<>>
    /\ grid = <<>>
    /\ y = 0
    /\ geometry = NoGeometry
    /\ image_path = NoRule
    /\ tweeter = <<>>
    /\ media = FALSE
    /\ tweets = <<>>
    /\ critical = FALSE
    /\ exception = ""
    /\ exit_status = -1
    /\ selections = 0
    /\ abandoned = 0

GenInit ==
    /\ pc = "gen_options"
    /\ rule = NoRule
    /\ initialCondition = <<>>
    /\ width = 0
    /\ height = 0
    /\ ScriptStart

\* the rule engine by itself: lines 160-197 entered with a rule, an
\* initialCondition, a number of cells and a number of generations
EngineInit ==
    /\ pc = "gen_derive"
    /\ rule \in EngineRules
    /\ initialCondition \in {Middle, Left, Right, Random} \cup Custom
    /\ width \in EngineWidths
    /\ height = EngineGenerations
    /\ ScriptStart

\* what gen.py never touches
mainOnly == <<config, logger, tweeting, retry, remaining_tries, image_path,
              tweeter, media, tweets, critical, selections, abandoned>>

\* lines 12-61 and 120-138: the rule, initialCondition = 'random', the
\* width and the angle drawn, and the options processed for the image of
\* 900 x 900 pixels
GenOptions(rules, widths, angles) ==
    /\ pc = "gen_options"
    /\ rule' \in rules
    /\ initialCondition' = Random
    /\ \E w \in widths, d \in angles :
          \E processed \in {OptionsProcessing(w, d, config.image_width,
                                               config.image_height)} :
              /\ geometry' = processed.geometry
              /\ width' = processed.width
              /\ height' = processed.height
    /\ pc' = "gen_derive"
    /\ UNCHANGED <<current_state_width, rule_binary, transistions, grid, y,
                   exception, exit_status>>
    /\ UNCHANGED mainOnly

\* lines 160-168; nothing catches the ValueError
GenDerive ==
    /\ pc = "gen_derive"
    /\ IF LogLogDefined(rule)
       THEN /\ current_state_width' = StateWidth(rule)
            /\ rule_binary' = RuleBinary(rule, current_state_width')
            /\ transistions' = Transitions(rule_binary', current_state_width')
            /\ pc' = "gen_initial"
            /\ UNCHANGED <<exception, exit_status>>
       ELSE /\ pc' = "gen_crashed"
            /\ exception' = "ValueError"
            /\ exit_status' = 1
            /\ UNCHANGED <<current_state_width, rule_binary, transistions>>
    /\ UNCHANGED <<geometry, width, height, rule, grid, y, initialCondition>>
    /\ UNCHANGED mainOnly

\* lines 170-184
GenInitialState ==
    /\ pc = "gen_initial"
    /\ \E initialState \in InitialStates(initialCondition, width) :
          grid' = <<initialState>>
    /\ y' = 0
    /\ pc' = "gen_for"
    /\ UNCHANGED <<geometry, width, height, rule, current_state_width,
                   rule_binary, transistions, initialCondition, exception,
                   exit_status>>
    /\ UNCHANGED mainOnly

\* lines 188-197: one iteration of the for loop, or its end
GenSimulate ==
    /\ pc = "gen_for"
    /\ IF y < height + generation_offset
       THEN LET currentState == grid[y + 1]
            IN  IF LookupsDefined(transistions, currentState,
                                  current_state_width, width)
                THEN /\ grid' = Append(grid, NextState(transistions,
                                      currentState, current_state_width, width))
                     /\ y' = y + 1
                     /\ pc' = "gen_for"
                     /\ UNCHANGED <<exception, exit_status>>
                ELSE /\ pc' = "gen_crashed"
                     /\ exception' = "KeyError"
                     /\ exit_status' = 1
                     /\ UNCHANGED <<grid, y>>
       ELSE /\ pc' = "gen_draw"
            /\ UNCHANGED <<grid, y, exception, exit_status>>
    /\ UNCHANGED <<geometry, width, height, rule, current_state_width,
                   rule_binary, transistions, initialCondition>>
    /\ UNCHANGED mainOnly

\* lines 204-248: discard the unwanted generations, draw and write out.png
GenDraw ==
    /\ pc = "gen_draw"
    /\ grid' = PySlice(grid, generation_offset, Len(grid))
    /\ IF /\ Len(grid') <= height + 1
          /\ \A i \in 1..Len(grid') : Len(grid'[i]) <= width
       THEN \E written \in BOOLEAN :
               /\ pc' = IF written THEN "gen_done" ELSE "gen_crashed"
               /\ exception' = IF written THEN exception ELSE "OSError"
               /\ exit_status' = IF written THEN 0 ELSE 1
       ELSE /\ pc' = "gen_crashed"
            /\ exception' = "IndexError"
            /\ exit_status' = 1
    /\ UNCHANGED <<geometry, width, height, rule, current_state_width,
                   rule_binary, transistions, y, initialCondition>>
    /\ UNCHANGED mainOnly

GenNext ==
    \/ GenOptions(GenRules, GenWidths, GenAngles)
    \/ GenDerive
    \/ GenInitialState
    \/ GenSimulate
    \/ GenDraw

EngineNext ==
    \/ GenDerive
    \/ GenInitialState
    \/ GenSimulate
    \/ GenDraw

----------------------------------------------------------------------------
(* What the properties are stated with *)

\* bit i of the rule number, counted from the least significant bit
BitOfRule(r, i) ==
    IF i < 16 THEN (r.lo \div 2^i) % 2
    ELSE IF i <= 32 THEN (r.hi \div 2^(i - 16)) % 2
    ELSE 0

\* the k-bit binary string of i, most significant bit first
KBits(i, k) == [j \in 1..k |-> Digit((i \div 2^(k - j)) % 2)]

\* the value of a string of bits
RECURSIVE Value(_)
Value(bits) ==
    IF bits = <<>> THEN 0
    ELSE 2 * Value(SubSeq(bits, 1, Len(bits) - 1))
         + (IF bits[Len(bits)] = "1" THEN 1 ELSE 0)

\* the k cells around position x of the ring cs (x counts from 0)
RingWindow(cs, x, k) ==
    [j \in 1..k |-> cs[((x - (k \div 2) + (j - 1)) % Len(cs)) + 1]]

\* the image of the generation cs under the rule r of neighbourhood width k
Image(r, k, cs) ==
    [i \in 1..Len(cs) |-> Digit(BitOfRule(r, Value(RingWindow(cs, i - 1, k))))]

IsBit(c) == c \in {"0", "1"}

IsGeneration(g, w) == Len(g) = w /\ \A i \in 1..w : IsBit(g[i])

\* the positions of main() at which the table is that of the rule selected last
TableInUse == pc \in {"initial", "for", "draw", "tweet", "send", "done"}

\* the positions of main() inside the retry loop
InLoop == pc \in {"while", "select", "derive", "initial", "for"}

\* the positions of main() after the retry loop has ended
AfterLoop == pc \in {"draw", "tweet", "send", "done"}

RuleZero == Small(0)
Rule90 == Small(90)
RuleMax == RuleOf(Base, 0)

----------------------------------------------------------------------------
(* C1 *)

\* C1: the automaton runs on a ring. While main() simulates, for every
\* generation of the grid and every position x in 0..width-1 (width >= k,
\* k in 3..6) the window looked up for x has exactly k cells, consists of the
\* cells at ring indices (x - floor(k/2) + j) mod width, j = 0..k-1, and is a
\* key of the table.
C1_RingNeighbourhood ==
    (pc = "for" /\ width >= current_state_width) =>
        /\ current_state_width \in 3..6
        /\ \A g \in 1..Len(grid) : \A x \in 0..(width - 1) :
              LET pattern == Pattern(grid[g], x, current_state_width, width)
              IN  /\ Len(pattern) = current_state_width
                  /\ pattern = RingWindow(grid[g], x, current_state_width)
                  /\ pattern \in DOMAIN transistions

\* a rule of neighbourhood width 6 has been stepped on a ring whose first
\* cell is alive and whose last cell is dead
C1_Witness ==
    /\ pc = "for"
    /\ y >= 1
    /\ current_state_width = 6
    /\ width = MinWidth
    /\ grid[1][1] = "1"
    /\ grid[1][width] = "0"

----------------------------------------------------------------------------
(* C2 *)

\* C2: whenever a table is in use, for every neighbourhood value i in
\* 0..2^k-1 it maps the k-bit binary string of i to the character at position
\* 2^k-1-i of the rule's binary expansion padded to 2^k bits, which is bit i
\* of the rule; read from i = 2^k-1 down to 0 the entries give the padded
\* string.
C2_TableIsRuleReversed ==
    TableInUse =>
        LET k == current_state_width
            n == 2^k
        IN  /\ Len(rule_binary) = n
            /\ \A i \in 0..(n - 1) :
                  /\ KBits(i, k) \in DOMAIN transistions
                  /\ transistions[KBits(i, k)] = rule_binary[(n - 1 - i) + 1]
                  /\ transistions[KBits(i, k)] = Digit(BitOfRule(rule, i))
            /\ [j \in 1..n |-> transistions[KBits(n - j, k)]] = rule_binary

\* the table of rule 30, whose bits 3 and 6 differ, is in use
C2_Witness ==
    /\ pc = "for"
    /\ rule = Small(30)
    /\ transistions[<<"0", "1", "1">>] = "1"
    /\ transistions[<<"1", "1", "0">>] = "0"

----------------------------------------------------------------------------
(* C3 *)

\* C3: for every rule number r >= 0 the policy can draw, r = 0 and r = 1
\* among them, deriving the table completes without an error and yields a
\* width k >= 3 and a table of exactly 2^k entries, each a single bit.
C3_DeriveTotal ==
    /\ exception /= "ValueError"
    /\ TableInUse =>
          /\ current_state_width >= 3
          /\ Cardinality(DOMAIN transistions) = 2^current_state_width
          /\ \A key \in DOMAIN transistions : IsBit(transistions[key])

----------------------------------------------------------------------------
(* C4 *)

\* C4: for every selectable rule r in 1..2^32 the width k is the least
\* integer >= 3 whose 2^k bits hold r's binary expansion, the padded string
\* has exactly 2^k characters and ends with the whole expansion, k is in
\* 3..6, and k = 6 exactly when r = 2^32.
C4_WidthIsLeast ==
    TableInUse =>
        LET k == current_state_width
            bits == FormatB(rule)
        IN  /\ k \in 3..6
            /\ Len(bits) <= 2^k
            /\ \A j \in 3..(k - 1) : Len(bits) > 2^j
            /\ Len(rule_binary) = 2^k
            /\ PySlice(rule_binary, 2^k - Len(bits), 2^k) = bits
            /\ \A i \in 1..(2^k - Len(bits)) : rule_binary[i] = "0"
            /\ (k = 6) <=> (rule = RuleMax)

\* the table of rule 2^32 has been derived
C4_Witness ==
    /\ pc = "for"
    /\ rule = RuleMax
    /\ current_state_width = 6
    /\ Len(FormatB(rule)) = 33

----------------------------------------------------------------------------
(* C5 *)

\* C5: when the retry loop has ended, after any number of abandoned attempts,
\* the grid holds exactly height + generation_offset + 1 generations, each of
\* exactly width characters over {'0','1'}; after the first generation_offset
\* entries are discarded exactly height + 1 rows remain, one for each entry of
\* y_positions, so drawing never runs past y_positions.
C5_FullGrid ==
    /\ pc = "draw" =>
          /\ Len(grid) = height + generation_offset + 1
          /\ \A i \in 1..Len(grid) : IsGeneration(grid[i], width)
    /\ pc \in {"tweet", "send", "done"} =>
          /\ Len(grid) = height + 1
          /\ \A i \in 1..Len(grid) : IsGeneration(grid[i], width)
    /\ exception /= "IndexError"

\* a grid has been drawn after two attempts were abandoned
C5_Witness ==
    /\ pc = "tweet"
    /\ abandoned = 2
    /\ Len(grid) = height + 1

----------------------------------------------------------------------------
(* C6 *)

\* C6: a boring step with attempts remaining ends the attempt at that step:
\* while tries remain no earlier step of the running attempt was boring, the
\* grid holds one generation per step made plus the initial state (only the
\* new initial state when an attempt starts), an abandoned attempt ends in a
\* boring step and is followed by a new selection; so in the grid that is
\* simulated and drawn every generation i+1 is the image of generation i
\* under the rule selected last, which is the rule in the file name and in
\* the post text.
C6_AbandonAndRestart ==
    /\ (pc = "for" /\ remaining_tries > 1) =>
          \A i \in 1..(Len(grid) - 1) : ~ Boring(grid[i + 1], grid[i])
    /\ pc = "for" => Len(grid) = y + 1
    /\ (pc = "while" /\ retry /\ selections > 0) =>
          /\ remaining_tries > 0
          /\ abandoned > 0
          /\ Len(grid) = y + 2
          /\ Boring(grid[Len(grid)], grid[Len(grid) - 1])
    /\ (pc = "for" \/ AfterLoop) =>
          \A i \in 1..(Len(grid) - 1) :
              grid[i + 1] = Image(rule, current_state_width, grid[i])
    /\ image_path /= NoRule => image_path = rule
    /\ \A i \in 1..Len(tweets) : tweets[i] = rule

\* a run that abandoned two attempts has posted its image
C6_Witness ==
    /\ pc = "done"
    /\ abandoned = 2
    /\ selections = 3
    /\ Len(grid) = height + 1
    /\ image_path = rule
    /\ tweets = <<rule>>

----------------------------------------------------------------------------
(* C7 *)

\* C7: the retry loop always terminates with a grid: no run leaves the loop
\* by an error, the loop is left with a full grid, at most 3 rules are
\* selected and at most 2 attempts abandoned, the remaining-tries counter
\* never drops below 1, and the attempt made with one try remaining is never
\* abandoned.
C7_LoopEndsWithGrid ==
    /\ exception \notin {"ValueError"}
    /\ ~ (exception = "KeyError" /\ selections > 0)
    /\ AfterLoop => Len(grid) >= height + 1
    /\ selections <= 3
    /\ abandoned <= 2
    /\ remaining_tries >= 1
    /\ (pc = "while" /\ retry) => remaining_tries + abandoned = 3

----------------------------------------------------------------------------
(* C8 *)

\* n over k
RECURSIVE Binomial(_, _)
Binomial(n, k) ==
    IF k = 0 THEN 1 ELSE (Binomial(n, k - 1) * (n - k + 1)) \div k

\* the positions (from 0) of the living cells of a generation
Living(g) == {x \in 0..(Len(g) - 1) : g[x + 1] = "1"}

\* C8: the rule engine with rule 90, width 31 and the centre cell (index 15) alone
\* alive: generation 1 has exactly the living cells 14 and 16, and for every
\* n in 1..15 cell 15+d of generation n is alive exactly when |d| <= n, n+d is
\* even and the binomial coefficient C(n, (n+d)/2) is odd; so both end cells
\* 15-n and 15+n are alive.
C8_Sierpinski ==
    (/\ rule = Rule90
     /\ width = 31
     /\ initialCondition = Middle
     /\ pc \in {"gen_for", "gen_draw", "gen_done", "gen_crashed"}) =>
        /\ Living(grid[1]) = {15}
        /\ Len(grid) >= 2 => Living(grid[2]) = {14, 16}
        /\ \A n \in 1..Min(15, Len(grid) - 1) :
              /\ Living(grid[n + 1]) =
                    {15 + d : d \in {e \in (0 - n)..n :
                        /\ (n + e) % 2 = 0
                        /\ Binomial(n, (n + e) \div 2) % 2 = 1}}
              /\ {15 - n, 15 + n} \subseteq Living(grid[n + 1])

\* generation 15 of that run has been computed; it spans the whole ring,
\* every second cell alive
C8_Witness ==
    /\ rule = Rule90
    /\ width = 31
    /\ initialCondition = Middle
    /\ pc = "gen_for"
    /\ Len(grid) >= 16
    /\ Living(grid[16]) = {x \in 0..30 : x % 2 = 0}

----------------------------------------------------------------------------
(* C9 *)

\* the generation has a single living cell
SingleCell(g) == Cardinality(Living(g)) = 1

\* rule 90 from a single living cell: no step is boring whose two generations
\* have not reached the first or the last cell of the ring
Rule90EarlyNotBoring ==
    (rule = Rule90 /\ pc = "for" /\ SingleCell(grid[1])) =>
        \A n \in 1..(Len(grid) - 1) :
            LET c == CHOOSE x \in Living(grid[1]) : TRUE
            IN  (c - n >= 1 /\ c + n <= width - 2) =>
                    ~ Boring(grid[n + 1], grid[n])

\* C9: boring detection is correct on the two reference cases. With the
\* all-zero rule, rule 0, the run simulates, every generation after the first
\* is all zeros and every step from an all-zero generation is boring; with
\* rule 90 from a single living cell no early step is boring.
C9_BoringReferenceCases ==
    /\ rule = RuleZero => exception = ""
    /\ (rule = RuleZero /\ TableInUse) =>
          \A i \in 2..Len(grid) :
              /\ grid[i] = Zeros(width)
              /\ i >= 3 => Boring(grid[i], grid[i - 1])
    /\ Rule90EarlyNotBoring

----------------------------------------------------------------------------
(* C10 *)

\* C10: the upload/post client is constructed only when all four credentials
\* are present and non-empty.
C10_PostingNeedsCredentials ==
    tweeter /= <<>> =>
        \A i \in 1..4 : tweeter[i] \notin {Missing, None, ""}

----------------------------------------------------------------------------
(* C11 *)

\* C11: every error raised anywhere in a run, a configuration error raised
\* before the logger exists among them, reaches the top-level handler, is
\* logged at critical severity and ends the process with a non-zero status.
C11_ErrorsLoggedCritical ==
    /\ exception /= "" => pc \in {"error", "exited"}
    /\ pc = "exited" =>
          /\ exception /= ""
          /\ critical
          /\ exit_status /= 0

----------------------------------------------------------------------------
(* C12 *)

\* C12 as stated: no run is on the error path after the image file has been
\* written or the media uploaded.
C12_NoPartialSuccess ==
    pc \in {"error", "exited"} => (image_path = NoRule /\ ~ media)

\* C12, amended: a run that is done has exit status 0, has written the image
\* and, when posting is enabled, has uploaded it and posted exactly once (and
\* nothing when posting is disabled); a run on the error path has posted
\* nothing and exits with status 1; a failed upload or post leaves the written
\* image behind, and a failed post the uploaded media as well.
C12_SuccessOrAbort ==
    /\ pc = "done" =>
          /\ exit_status = 0
          /\ exception = ""
          /\ image_path = rule
          /\ tweeting => (media /\ tweets = <<rule>>)
          /\ ~ tweeting => (~ media /\ tweets = <<>>)
    /\ pc \in {"error", "exited"} => tweets = <<>>
    /\ pc = "exited" => exit_status = 1
    /\ Len(tweets) <= 1
    /\ exception = "TweepError" => image_path = rule
    /\ (pc = "error" /\ media) => exception = "TweepError"
    /\ media => image_path = rule

\* a run has ended on the error path after writing and uploading the image
C12_Witness ==
    /\ pc = "exited"
    /\ exception = "TweepError"
    /\ image_path = rule
    /\ media
    /\ tweets = <<>>

\* ---------------------------------------------------------------------
\* C13: once the options are processed with the rotation angle 0, the
\* required image size is the target image size, the translation is (0, 0),
\* and the numbers of cells and of generations are those computed before the
\* rotation.
C13_ZeroRotation ==
    (geometry.original_width > 0 /\ geometry.angle = Float(0)) =>
        /\ geometry.required_image_width = Float(config.image_width)
        /\ geometry.required_image_height = Float(config.image_height)
        /\ geometry.translation = <<Float(0), Float(0)>>
        /\ width = geometry.original_width
        /\ height = PreRotationHeight(geometry.original_width,
                                      config.image_width, config.image_height)

\* a wide image at the angle 0: 193 cells, 129 generations
C13_Witness ==
    /\ pc = "while"
    /\ geometry.angle = Float(0)
    /\ config.image_width = 1200
    /\ config.image_height = 800
    /\ geometry.required_image_width = Float(1200)
    /\ geometry.required_image_height = Float(800)
    /\ geometry.original_width = 193
    /\ width = 193
    /\ height = 129

\* ---------------------------------------------------------------------
\* C14 as stated: whenever a table is in use, the most significant bit of
\* the padded rule string is the output of the all-zero neighbourhood.
C14_MostSignificantIsNeighbourhoodZero ==
    TableInUse =>
        transistions[[j \in 1..current_state_width |-> "0"]] = rule_binary[1]

\* C14: the padded rule string is indexed in reverse, so whenever a table is
\* in use its least significant (last) bit is the output of the all-zero
\* neighbourhood and its most significant (first) bit is the output of the
\* all-one neighbourhood 2^k-1.
C14_LeastSignificantIsNeighbourhoodZero ==
    TableInUse =>
        LET k == current_state_width
        IN  /\ Len(rule_binary) = 2^k
            /\ transistions[[j \in 1..k |-> "0"]] = rule_binary[2^k]
            /\ transistions[[j \in 1..k |-> "1"]] = rule_binary[1]

\* the table of rule 1 = 00000001: only the all-zero neighbourhood gives 1
C14_Witness ==
    /\ pc = "for"
    /\ rule = Small(1)
    /\ rule_binary = <<"0", "0", "0", "0", "0", "0", "0", "1">>
    /\ transistions[<<"0", "0", "0">>] = "1"
    /\ transistions[<<"1", "1", "1">>] = "0"

\* ---------------------------------------------------------------------
\* the consecutive generations i, i+1 of the grid that are static or a
\* one-cell shift
BoringPairs == {i \in 1..(Len(grid) - 1) : Boring(grid[i + 1], grid[i])}

\* an attempt has just been abandoned
Abandoned == pc = "while" /\ retry /\ selections > 0

\* C15 as stated: only the transition between the final two generations of
\* an attempt is inspected, so an attempt is abandoned only once all its
\* height + generation_offset generations are produced.
C15_OnlyFinalPairInspected ==
    Abandoned => Len(grid) = height + generation_offset + 1

\* C15: the boring test is made on every transition as it is produced: an
\* attempt with retries remaining that is running, finished or drawn holds
\* no static or one-cell-shift pair of consecutive generations at all, and
\* an abandoned attempt was cut at its first such pair, which is its last.
C15_EveryPairInspected ==
    /\ ((pc = "for" \/ AfterLoop \/ (pc = "while" /\ ~ retry))
            /\ remaining_tries > 1) =>
          BoringPairs = {}
    /\ Abandoned => BoringPairs = {Len(grid) - 1}

\* an attempt abandoned at its first step, with a generation still to come
C15_Witness ==
    /\ Abandoned
    /\ remaining_tries = 2
    /\ height = MaxHeight
    /\ Len(grid) = 2
    /\ Len(grid) < height + generation_offset + 1
    /\ Boring(grid[2], grid[1])

\* main() with posting enabled, over the rules, widths and heights
\* of the model
Spec == Init /\ [][Next]_vars

\* main() over every configuration, with a small automaton
SpecConfig == InitConfig /\ [][NextConfig]_vars

\* main() up to the retry loop, over every width and angle and the image
\* sizes of the model
SpecGeometry == GeometryInit /\ [][GeometryNext]_vars

\* gen.py
SpecGen == GenInit /\ [][GenNext]_vars

\* the rule engine of gen.py by itself
SpecEngine == EngineInit /\ [][EngineNext]_vars

====
